---- MODULE Spec2Model ----
(***************************************************************************)
(* A model of the RFInject template repository's utilities:                *)
(*   pyscripts/download_hf_datasets.py  the retrying fetcher and its loop  *)
(*   pyscripts/example_script.py        the text transform command         *)
(*   pyscripts/process_data.py          the tabular dataset command        *)
(*   src/your_package/example.py        process_data and DataProcessor     *)
(* The utilities share no state, so each has its own specification over    *)
(* its own variables; the variables of the others stay at their initial    *)
(* values.                                                                 *)
(***************************************************************************)
EXTENDS Integers, Sequences, FiniteSets, TLC

VARIABLES
    \* ---- download_hf_datasets.py
    repo_ids,       \* the list the top-level loop walks
    repo_type,      \* argument of download_dataset
    max_retries,    \* argument of download_dataset
    retry_delay,    \* argument of download_dataset
    f_pc,           \* position of the fetch script
    f_idx,          \* index of the loop's current identifier (1-based)
    retries,        \* download_dataset's local counter
    outcomes,       \* outcome of each snapshot_download attempt of the current call
    sleeps,         \* time.sleep calls of the current call
    slept,          \* seconds slept in the current call
    calls,          \* one record per finished download_dataset call
    f_stdout,       \* what the loop printed ("skip" lines only)
    f_escaped,      \* an exception left the top-level loop
    \* ---- example_script.py
    t_args,         \* parsed arguments: input, output, verbose
    t_fs,           \* files: path -> content, NoFile or IsDir
    t_fs0,          \* the files before the run
    t_pc,           \* "start" or "exited"
    t_stdout,       \* lines printed to standard output
    t_stderr,       \* lines printed to standard error
    t_exit,         \* exit status returned by main
    \* ---- process_data.py
    d_args,         \* parsed arguments: input_file, output, analyze, clean, format
    d_pc,           \* position of main
    d_df,           \* the table held by main
    d_steps,        \* the steps main has run, with their outcome
    d_dirs,         \* directories that exist
    d_files,        \* files: path -> what was written
    d_dirs0,        \* directories before the run
    d_files0,       \* files before the run
    d_encoded,      \* encoder invocations (to_csv, to_json, to_parquet)
    d_raised,       \* the exception main caught, or None
    d_exit,         \* exit status returned by main
    \* ---- clean_dataset
    c_df,           \* input table
    c_out,          \* result of clean_dataset, or None before the call
    \* ---- example.py
    heap,           \* dictionary objects: id -> mapping
    caller_cfg,     \* the dictionary the caller passed to the constructor
    proc,           \* the DataProcessor object, or None
    proc_cfg0,      \* the processor's configuration when __init__ returned
    last_call,      \* the last method call and its result
    p_input,        \* argument of process_data
    p_filter,       \* filter_empty argument of process_data
    p_result        \* outcome of process_data, or None before the call

fetchVars == <<repo_ids, repo_type, max_retries, retry_delay, f_pc, f_idx, retries,
               outcomes, sleeps, slept, calls, f_stdout, f_escaped>>
transformVars == <<t_args, t_fs, t_fs0, t_pc, t_stdout, t_stderr, t_exit>>
tabularVars == <<d_args, d_pc, d_df, d_steps, d_dirs, d_files, d_dirs0, d_files0,
                 d_encoded, d_raised, d_exit>>
cleanVars == <<c_df, c_out>>
processorVars == <<heap, caller_cfg, proc, proc_cfg0, last_call>>
processDataVars == <<p_input, p_filter, p_result>>
vars == <<fetchVars, transformVars, tabularVars, cleanVars, processorVars,
          processDataVars>>
notFetchVars == <<transformVars, tabularVars, cleanVars, processorVars, processDataVars>>
notTransformVars == <<fetchVars, tabularVars, cleanVars, processorVars, processDataVars>>
notTabularVars == <<fetchVars, transformVars, cleanVars, processorVars, processDataVars>>
notCleanVars == <<fetchVars, transformVars, tabularVars, processorVars, processDataVars>>
notProcessorVars == <<fetchVars, transformVars, tabularVars, cleanVars, processDataVars>>
notProcessDataVars == <<fetchVars, transformVars, tabularVars, cleanVars, processorVars>>

None == "None"

(***************************************************************************)
(* Python strings are sequences of characters.  str.strip, str.upper and   *)
(* str.lower as the interpreter computes them on the model's alphabet.     *)
(***************************************************************************)
Whitespace == {" ", "\n"}
Letters == {"a", "B"}
Alphabet == Whitespace \cup Letters

LowerLetters == <<"a", "b", "c", "d", "e", "f", "g", "h", "i", "j", "k", "l", "m",
                  "n", "o", "p", "q", "r", "s", "t", "u", "v", "w", "x", "y", "z">>
UpperLetters == <<"A", "B", "C", "D", "E", "F", "G", "H", "I", "J", "K", "L", "M",
                  "N", "O", "P", "Q", "R", "S", "T", "U", "V", "W", "X", "Y", "Z">>

upper_char(c) ==
    IF \E i \in DOMAIN LowerLetters : LowerLetters[i] = c
    THEN UpperLetters[CHOOSE i \in DOMAIN LowerLetters : LowerLetters[i] = c]
    ELSE c
lower_char(c) ==
    IF \E i \in DOMAIN UpperLetters : UpperLetters[i] = c
    THEN LowerLetters[CHOOSE i \in DOMAIN UpperLetters : UpperLetters[i] = c]
    ELSE c

upper(s) == [i \in 1..Len(s) |-> upper_char(s[i])]
lower(s) == [i \in 1..Len(s) |-> lower_char(s[i])]

RECURSIVE lstrip(_)
lstrip(s) == IF s # <<>> /\ Head(s) \in Whitespace THEN lstrip(Tail(s)) ELSE s

RECURSIVE rstrip(_)
rstrip(s) ==
    IF s # <<>> /\ s[Len(s)] \in Whitespace THEN rstrip(SubSeq(s, 1, Len(s) - 1)) ELSE s

strip(s) == rstrip(lstrip(s))

\* truth value of a str: non-empty
truthy_str(s) == s # <<>>

SeqsUpTo(S, n) == UNION {[1..k -> S] : k \in 0..n}

(***************************************************************************)
(* download_hf_datasets.py                                                 *)
(***************************************************************************)
MaxRetries == 3
MaxRepos == 2
RepoIdValues == {<<>>, <<" ">>, <<"a">>, <<"B">>}
RepoTypeValues == {<<"a">>, <<" ">>}
RetryDelayValues == {-1, 0, 5}
local_directory == "."

\* faulty variant: the strings are tested for emptiness without strip()
PreconditionsHold_NoStrip(repo_id, rtype, mr, delay) ==
    /\ truthy_str(repo_id)
    /\ truthy_str(rtype)
    /\ mr > 0
    /\ delay >= 0

\* lines 48-52: the assertions that guard download_dataset
PreconditionsHold(repo_id, rtype, mr, delay) ==
    /\ truthy_str(strip(repo_id))
    /\ truthy_str(strip(rtype))
    /\ mr > 0
    /\ delay >= 0

\* the value snapshot_download returns on the k-th attempt for repo_id
DownloadPath(repo_id, k) == <<"path", local_directory, repo_id, k>>
\* the exception snapshot_download raises on the k-th attempt for repo_id
DownloadError(repo_id, k) == <<"error", repo_id, k>>

CurrentRepo == repo_ids[f_idx]

CallRecord(outs, outcome, value) ==
    [repo_id |-> CurrentRepo, outcomes |-> outs, sleeps |-> sleeps', slept |-> slept',
     outcome |-> outcome, value |-> value]

FetchInit ==
    /\ repo_ids \in SeqsUpTo(RepoIdValues, MaxRepos)
    /\ repo_type \in RepoTypeValues
    /\ max_retries \in 0..MaxRetries
    /\ retry_delay \in RetryDelayValues
    /\ f_pc = "loop"
    /\ f_idx = 1
    /\ retries = 0
    /\ outcomes = <<>>
    /\ sleeps = 0
    /\ slept = 0
    /\ calls = <<>>
    /\ f_stdout = <<>>
    /\ f_escaped = FALSE

\* faulty variant: an off-by-one retry budget
BudgetRemains_OffByOne(r, mr) == r <= mr

\* lines 54, 69: the retry budget test of download_dataset
BudgetRemains(r, mr) == r < mr

\* faulty variant: the loop body lets the failure out instead of logging it
LoopCatch_Propagates(exc) ==
    /\ f_escaped' = TRUE
    /\ f_pc' = "done"
    /\ UNCHANGED <<f_stdout, f_idx>>

\* lines 92-95: the loop body's handler: log and go on with the next identifier
LoopCatch(exc) ==
    /\ f_stdout' = Append(f_stdout, <<"Skipping", CurrentRepo, exc>>)
    /\ f_idx' = f_idx + 1
    /\ f_pc' = "loop"
    /\ f_escaped' = FALSE

\* lines 91-93, 48-54: the loop takes the next identifier and calls download_dataset,
\* which checks its assertions and enters its retry loop
DownloadEnter ==
    /\ UNCHANGED notFetchVars
    /\ f_pc = "loop"
    /\ f_idx <= Len(repo_ids)
    /\ retries' = 0
    /\ outcomes' = <<>>
    /\ sleeps' = 0
    /\ slept' = 0
    /\ IF PreconditionsHold(CurrentRepo, repo_type, max_retries, retry_delay)
       THEN /\ f_pc' = "attempting"
            /\ UNCHANGED <<calls, f_stdout, f_idx, f_escaped>>
       ELSE /\ calls' = Append(calls, CallRecord(<<>>, "raised", <<"AssertionError">>))
            /\ LoopCatch(<<"AssertionError">>)
    /\ UNCHANGED <<repo_ids, repo_type, max_retries, retry_delay>>

\* faulty variant: the successful attempt does not return and the loop keeps retrying
AttemptSucceeds_NoReturn ==
    /\ UNCHANGED notFetchVars
    /\ f_pc = "attempting"
    /\ BudgetRemains(retries, max_retries)
    /\ outcomes' = Append(outcomes, "ok")
    /\ retries' = retries + 1
    /\ f_pc' = IF BudgetRemains(retries', max_retries) THEN "sleeping" ELSE "loop"
    /\ f_idx' = IF BudgetRemains(retries', max_retries) THEN f_idx ELSE f_idx + 1
    /\ UNCHANGED <<sleeps, slept>>
    /\ calls' = IF BudgetRemains(retries', max_retries) THEN calls
                ELSE Append(calls, CallRecord(outcomes', "returned",
                                              DownloadPath(CurrentRepo, Len(outcomes'))))
    /\ UNCHANGED <<repo_ids, repo_type, max_retries, retry_delay, f_stdout, f_escaped>>

\* lines 55-65, 93: snapshot_download returns; download_dataset returns its path and
\* the loop goes on
AttemptSucceeds ==
    /\ UNCHANGED notFetchVars
    /\ f_pc = "attempting"
    /\ BudgetRemains(retries, max_retries)
    /\ outcomes' = Append(outcomes, "ok")
    /\ UNCHANGED <<sleeps, slept>>
    /\ calls' = Append(calls, CallRecord(outcomes', "returned",
                                         DownloadPath(CurrentRepo, Len(outcomes'))))
    /\ f_idx' = f_idx + 1
    /\ f_pc' = "loop"
    /\ UNCHANGED <<repo_ids, repo_type, max_retries, retry_delay, retries, f_stdout,
                   f_escaped>>

\* lines 66-74, 94-95: snapshot_download raises; download_dataset counts the retry and
\* either starts the sleep or re-raises the exception it caught, which the loop logs
AttemptFails ==
    /\ UNCHANGED notFetchVars
    /\ f_pc = "attempting"
    /\ BudgetRemains(retries, max_retries)
    /\ outcomes' = Append(outcomes, "fail")
    /\ retries' = retries + 1
    /\ UNCHANGED <<sleeps, slept>>
    /\ IF BudgetRemains(retries', max_retries)
       THEN /\ f_pc' = "sleeping"
            /\ UNCHANGED <<calls, f_stdout, f_idx, f_escaped>>
       ELSE /\ calls' = Append(calls, CallRecord(outcomes', "raised",
                                        DownloadError(CurrentRepo, Len(outcomes'))))
            /\ LoopCatch(DownloadError(CurrentRepo, Len(outcomes')))
    /\ UNCHANGED <<repo_ids, repo_type, max_retries, retry_delay>>

\* line 71: time.sleep(retry_delay) returns and the while loop tests its condition
SleepReturns ==
    /\ UNCHANGED notFetchVars
    /\ f_pc = "sleeping"
    /\ sleeps' = sleeps + 1
    /\ slept' = slept + retry_delay
    /\ f_pc' = "attempting"
    /\ UNCHANGED <<repo_ids, repo_type, max_retries, retry_delay, f_idx, retries,
                   outcomes, calls, f_stdout, f_escaped>>

\* line 91: the list is exhausted and the script ends
LoopExit ==
    /\ UNCHANGED notFetchVars
    /\ f_pc = "loop"
    /\ f_idx > Len(repo_ids)
    /\ f_pc' = "done"
    /\ UNCHANGED <<repo_ids, repo_type, max_retries, retry_delay, f_idx, retries,
                   outcomes, sleeps, slept, calls, f_stdout, f_escaped>>

(***************************************************************************)
(* example_script.py: the text transform command                           *)
(***************************************************************************)
MaxText == 2
\* what a path holds: nothing, a directory, bytes that are not UTF-8, or text
NoFile == [kind |-> "none", text |-> <<>>]
IsDir == [kind |-> "dir", text |-> <<>>]
Undecodable == [kind |-> "binary", text |-> <<>>]
TextFile(text) == [kind |-> "file", text |-> text]
\* the paths of the modelled file system; NoParent's directory does not exist
InFile == "in.txt"
OutFile == "out.txt"
MissingFile == "missing.txt"
Directory == "dir"
NoParent == "nodir/out.txt"
TPaths == {InFile, OutFile, MissingFile, Directory, NoParent}
InputValues == {"", " ", InFile, MissingFile, Directory}
OutputValues == {None, "", OutFile, InFile, Directory, NoParent}
TextValues == SeqsUpTo(Alphabet, MaxText)

\* str.strip() of a path argument is empty
blank_path(p) == p \in {"", " "}

\* faulty variant: only the empty string counts as blank
IsBlankContent_EmptyOnly(content) == content = <<>>

\* line 98: not content.strip()
IsBlankContent(content) == ~truthy_str(strip(content))

\* line 65: the handler of main
ReportError(exc) == <<"Error", exc>>

\* lines 104-112: deliver processed_content to the output path or to the console
Deliver(output_path, verbose, processed_content, fs, out) ==
    IF output_path # None /\ output_path # ""
    THEN IF fs[output_path] = IsDir
         THEN [raised |-> "IsADirectoryError", fs |-> fs, out |-> out]
         ELSE IF output_path = NoParent
         THEN [raised |-> "FileNotFoundError", fs |-> fs, out |-> out]
         ELSE [raised |-> None,
               fs |-> [fs EXCEPT ![output_path] = TextFile(processed_content)],
               out |-> IF verbose THEN Append(out, <<"Output written to", output_path>>)
                       ELSE out]
    ELSE [raised |-> None, fs |-> fs, out |-> Append(out, <<"echo", processed_content>>)]

\* lines 82-112: process_file
process_file(input_path, output_path, verbose, fs) ==
    IF blank_path(input_path)
    THEN [raised |-> "AssertionError", fs |-> fs, out |-> <<>>]
    ELSE IF fs[input_path] = NoFile
    THEN [raised |-> "FileNotFoundError", fs |-> fs, out |-> <<>>]
    ELSE LET out == IF verbose THEN << <<"Processing file", input_path>> >> ELSE <<>>
             content == fs[input_path]
         IN  IF content = IsDir
             THEN [raised |-> "IsADirectoryError", fs |-> fs, out |-> out]
             ELSE IF content = Undecodable
             THEN [raised |-> "UnicodeDecodeError", fs |-> fs, out |-> out]
             ELSE IF IsBlankContent(content.text)
             THEN [raised |-> "ValueError", fs |-> fs, out |-> out]
             ELSE Deliver(output_path, verbose, upper(content.text), fs, out)

TransformInit ==
    /\ t_args \in [input : InputValues, output : OutputValues, verbose : BOOLEAN]
    /\ \E in \in {TextFile(t) : t \in TextValues} \cup {Undecodable},
          out \in {NoFile, TextFile(<<"a">>)} :
          t_fs = [p \in TPaths |->
                    IF p = InFile THEN in
                    ELSE IF p = OutFile THEN out
                    ELSE IF p = Directory THEN IsDir
                    ELSE NoFile]
    /\ t_fs0 = t_fs
    /\ t_pc = "start"
    /\ t_stdout = <<>>
    /\ t_stderr = <<>>
    /\ t_exit = -1

\* lines 59-66: main calls process_file and maps its outcome to the exit status
TransformMain ==
    /\ UNCHANGED notTransformVars
    /\ t_pc = "start"
    /\ LET r == process_file(t_args.input, t_args.output, t_args.verbose, t_fs)
       IN  /\ t_fs' = r.fs
           /\ t_stdout' = r.out
           /\ IF r.raised = None
              THEN t_exit' = 0 /\ t_stderr' = <<>>
              ELSE t_exit' = 1 /\ t_stderr' = <<ReportError(r.raised)>>
    /\ t_pc' = "exited"
    /\ UNCHANGED <<t_args, t_fs0>>

(***************************************************************************)
(* process_data.py: tables and clean_dataset.  A table is its column dtypes *)
(* ("num" for the np.number dtypes, "obj" for object) and its rows.  A cell *)
(* is missing, a number n/d, or a string (by its rank in sort order).       *)
(***************************************************************************)
MaxRows == 4
NA == <<"na", 0, 1>>
Num(n, d) == <<"num", n, d>>
Str(k) == <<"str", k, 1>>
\* the literal 'unknown' of lines 166 and 168
Unknown == Str(0)
isnull(cell) == cell[1] = "na"

RECURSIVE Gcd(_, _)
Gcd(x, y) == IF y = 0 THEN x ELSE Gcd(y, x % y)

Abs(x) == IF x < 0 THEN -x ELSE x

\* the number n/d in lowest terms
Fraction(n, d) == LET g == Gcd(Abs(n), d) IN Num(n \div g, d \div g)

RECURSIVE SumNum(_)
SumNum(cells) == IF cells = <<>> THEN 0 ELSE Head(cells)[2] + SumNum(Tail(cells))

Column(df, j) == [i \in 1..Len(df.rows) |-> df.rows[i][j]]
Present(col) == SelectSeq(col, LAMBDA c : ~isnull(c))

\* line 141: DataFrame.drop_duplicates keeps the first occurrence of every row
RECURSIVE drop_duplicate_rows(_)
drop_duplicate_rows(rows) ==
    IF rows = <<>> THEN <<>>
    ELSE LET init == drop_duplicate_rows(SubSeq(rows, 1, Len(rows) - 1))
             last == rows[Len(rows)]
         IN  IF \E i \in 1..(Len(rows) - 1) : rows[i] = last THEN init
             ELSE Append(init, last)

\* line 151: Series.mean skips the missing entries; of nothing it is NaN.
\* The cells of a loaded numeric column are whole numbers here.
mean(col) ==
    LET p == Present(col)
    IN  IF p = <<>> THEN NA ELSE Fraction(SumNum(p), Len(p))

\* the k-th smallest value of the present cells p
KthSmallest(p, k) ==
    CHOOSE v \in {p[i][2] : i \in DOMAIN p} :
        /\ Cardinality({i \in DOMAIN p : p[i][2] < v}) < k
        /\ Cardinality({i \in DOMAIN p : p[i][2] <= v}) >= k

\* line 153: Series.median skips the missing entries; of nothing it is NaN
median(col) ==
    LET p == Present(col)
        n == Len(p)
    IN  IF n = 0 THEN NA
        ELSE IF n % 2 = 1 THEN Num(KthSmallest(p, (n + 1) \div 2), 1)
        ELSE Fraction(KthSmallest(p, n \div 2) + KthSmallest(p, n \div 2 + 1), 2)

\* lines 165-166: the first of Series.mode (the most frequent values, sorted), or
\* 'unknown' when the column has no present value
mode_or_unknown(col) ==
    LET p == Present(col)
        count(v) == Cardinality({i \in DOMAIN p : p[i] = v})
        modes == {p[i] : i \in {k \in DOMAIN p : \A l \in DOMAIN p : count(p[l]) <= count(p[k])}}
    IN  IF p = <<>> THEN Unknown
        ELSE CHOOSE v \in modes : \A w \in modes : v[2] <= w[2]

\* faulty variant: the mean is taken before the duplicates are dropped
NumericFillValue_Stale(df, rows, j, fill_numeric_na) ==
    IF fill_numeric_na = "mean" THEN mean(Column(df, j))
    ELSE IF fill_numeric_na = "median" THEN median(Column(df, j))
    ELSE Num(0, 1)

\* lines 150-155: the fill value of numeric column j of the de-duplicated rows
NumericFillValue(df, rows, j, fill_numeric_na) ==
    IF fill_numeric_na = "mean" THEN mean(Column([df EXCEPT !.rows = rows], j))
    ELSE IF fill_numeric_na = "median" THEN median(Column([df EXCEPT !.rows = rows], j))
    ELSE Num(0, 1)

\* lines 164-168: the fill value of categorical column j
CategoricalFillValue(df, rows, j, fill_categorical_na) ==
    IF fill_categorical_na = "mode"
    THEN mode_or_unknown(Column([df EXCEPT !.rows = rows], j))
    ELSE Unknown

\* Series.fillna(value): a NaN value fills nothing
fillna(cell, value) == IF isnull(cell) /\ ~isnull(value) THEN value ELSE cell

\* lines 136-173: clean_dataset
clean_dataset(df, drop_duplicates, fill_numeric_na, fill_categorical_na) ==
    LET rows == IF drop_duplicates THEN drop_duplicate_rows(df.rows) ELSE df.rows
        fill(j) == IF df.dtypes[j] = "num"
                   THEN NumericFillValue(df, rows, j, fill_numeric_na)
                   ELSE CategoricalFillValue(df, rows, j, fill_categorical_na)
    IN  [dtypes |-> df.dtypes,
         rows |-> [i \in 1..Len(rows) |->
                     [j \in 1..Len(df.dtypes) |-> fillna(rows[i][j], fill(j))]]]

NumCellsA == {Num(1, 1), Num(3, 1)}
NumCellsB == {NA, Num(2, 1), Num(5, 1)}
StrCellsB == {NA, Str(1), Str(2)}
Tables ==
    UNION {{[dtypes |-> <<"num", t>>, rows |-> r] :
              r \in SeqsUpTo({<<a, b>> : a \in NumCellsA,
                                        b \in IF t = "num" THEN NumCellsB ELSE StrCellsB},
                             MaxRows)} : t \in {"num", "obj"}}

\* before the call there is no result
NotCalled(df) ==
    [called |-> FALSE, drop_duplicates |-> FALSE, fill_numeric_na |-> "",
     fill_categorical_na |-> "", df |-> df]

CleanInit ==
    /\ c_df \in Tables
    /\ c_out = NotCalled(c_df)

\* a call of clean_dataset with arguments that pass the assertions of lines 131-134
CleanCall ==
    /\ UNCHANGED notCleanVars
    /\ ~c_out.called
    /\ \E drop_duplicates \in BOOLEAN, fill_numeric_na \in {"mean", "median", "zero"},
          fill_categorical_na \in {"mode", "unknown"} :
          c_out' = [called |-> TRUE, drop_duplicates |-> drop_duplicates,
                    fill_numeric_na |-> fill_numeric_na,
                    fill_categorical_na |-> fill_categorical_na,
                    df |-> clean_dataset(c_df, drop_duplicates, fill_numeric_na,
                                         fill_categorical_na)]
    /\ UNCHANGED c_df

(***************************************************************************)
(* process_data.py: the tabular command.  A path is the directory it lies  *)
(* in (a sequence of names, empty for the working directory), the pieces   *)
(* of its stem and its suffix (Path.suffix, a string of characters).  An   *)
(* optional argument is the empty sequence (None) or a one-element one.    *)
(* Every ancestor of a path is a directory or absent, so mkdir succeeds.   *)
(***************************************************************************)
CSV == <<"c", "s", "v">>
JSON == <<"j", "s", "o", "n">>
PARQUET == <<"p", "a", "r", "q", "u", "e", "t">>
XLSX == <<"x", "l", "s", "x">>
XLS == <<"x", "l", "s">>
TXT == <<"t", "x", "t">>
Dot(ext) == <<".">> \o ext

PathOf(dir, stem, suffix) == [dir |-> dir, stem |-> stem, suffix |-> suffix]
EmptyString == PathOf(<<>>, <<>>, <<>>)
BlankString == PathOf(<<>>, <<" ">>, <<>>)

\* str.strip() of the path string is empty
path_blank(p) == p \in {EmptyString, BlankString}

\* truth value of an optional string argument (lines 287): neither None nor ''
truthy_arg(opt) == opt # <<>> /\ opt[1] # EmptyString

\* str.lstrip('.')
RECURSIVE lstrip_dot(_)
lstrip_dot(s) == IF s # <<>> /\ Head(s) = "." THEN lstrip_dot(Tail(s)) ELSE s

\* Path.parent and its ancestors below the working directory
Ancestors(p) == {SubSeq(p.dir, 1, k) : k \in 1..Len(p.dir)}

\* the path names an existing directory
IsDirectory(p, dirs) ==
    /\ p.suffix = <<>>
    /\ Len(p.stem) = 1
    /\ Append(p.dir, p.stem[1]) \in dirs

\* what a file holds: a table in one of the formats, or bytes no decoder reads
Dataset(fmt, table) == [fmt |-> fmt, table |-> table]
EmptyTable == [dtypes |-> <<>>, rows |-> <<>>]
Garbage == Dataset("garbage", EmptyTable)

\* lines 53-64: the decoder load_dataset picks for a suffix
Decoder(suffix) ==
    LET sfx == lower(suffix)
    IN  IF sfx = Dot(CSV) THEN "csv"
        ELSE IF sfx = Dot(JSON) THEN "json"
        ELSE IF sfx \in {Dot(XLSX), Dot(XLS)} THEN "excel"
        ELSE IF sfx = Dot(PARQUET) THEN "parquet"
        ELSE "unsupported"

\* lines 46-64: load_dataset
load_dataset(file_path, files) ==
    IF path_blank(file_path) THEN [raised |-> "AssertionError", df |-> EmptyTable]
    ELSE IF file_path \notin DOMAIN files
    THEN [raised |-> "FileNotFoundError", df |-> EmptyTable]
    ELSE IF Decoder(file_path.suffix) = "unsupported"
    THEN [raised |-> "ValueError", df |-> EmptyTable]
    ELSE IF files[file_path].fmt # Decoder(file_path.suffix)
    THEN [raised |-> "ParserError", df |-> EmptyTable]
    ELSE [raised |-> None, df |-> files[file_path].table]

\* faulty variant: an unknown format falls back to the csv encoder
Encoder_DefaultCsv(format_type) ==
    IF format_type = JSON THEN "json"
    ELSE IF format_type = PARQUET THEN "parquet"
    ELSE "csv"

\* lines 198-205: the encoder save_dataset picks for a format
Encoder(format_type) ==
    IF format_type = CSV THEN "csv"
    ELSE IF format_type = JSON THEN "json"
    ELSE IF format_type = PARQUET THEN "parquet"
    ELSE "unsupported"

\* lines 186-207: save_dataset
save_dataset(df, output_path, format_type, dirs, files) ==
    IF path_blank(output_path)
    THEN [raised |-> "AssertionError", dirs |-> dirs, files |-> files, encoded |-> <<>>]
    ELSE LET made == dirs \cup Ancestors(output_path)
             fmt == IF format_type = <<>> THEN lstrip_dot(lower(output_path.suffix))
                    ELSE format_type[1]
         IN  IF Encoder(fmt) = "unsupported"
             THEN [raised |-> "ValueError", dirs |-> made, files |-> files,
                   encoded |-> <<>>]
             ELSE IF IsDirectory(output_path, made)
             THEN [raised |-> "IsADirectoryError", dirs |-> made, files |-> files,
                   encoded |-> <<Encoder(fmt)>>]
             ELSE [raised |-> None, dirs |-> made,
                   files |-> [q \in DOMAIN files \cup {output_path} |->
                                IF q = output_path THEN Dataset(Encoder(fmt), df)
                                ELSE files[q]],
                   encoded |-> <<Encoder(fmt)>>]

\* faulty variant: the cleaned table replaces the input file
DerivedOutputPath_InPlace(input_path) == input_path

\* lines 291-292: where a cleaned table goes when no --output is given
DerivedOutputPath(input_path) ==
    PathOf(Append(input_path.dir, "processed"), Append(input_path.stem, "_cleaned"),
           input_path.suffix)

CleanTable == [dtypes |-> <<"num", "obj">>,
               rows |-> << <<Num(1, 1), Str(1)>>, <<Num(3, 1), Str(2)>> >>]
SampleTables ==
    {[dtypes |-> <<"num", "num">>,
      rows |-> << <<Num(1, 1), Num(2, 1)>>, <<Num(1, 1), Num(2, 1)>>, <<Num(3, 1), NA>> >>],
     CleanTable}

Here(stem, ext) == PathOf(<<>>, <<stem>>, Dot(ext))
ExistingInputs ==
    {Here("data", CSV), Here("data", <<"C", "S", "V">>), PathOf(<<"sub">>, <<"data">>, Dot(JSON)),
     Here("data", XLSX), Here("data", XLS), Here("data", PARQUET), Here("data", TXT)}
InputFileValues == ExistingInputs \cup {Here("missing", CSV), BlankString}
OutputArgValues ==
    {<<>>, <<EmptyString>>, <<BlankString>>, <<Here("out", CSV)>>,
     <<PathOf(<<"new", "deep">>, <<"out">>, Dot(JSON))>>, <<Here("out", TXT)>>,
     <<PathOf(<<>>, <<"out">>, <<>>)>>, <<PathOf(<<>>, <<"sub">>, <<>>)>>}
FormatArgValues == {<<>>, <<CSV>>, <<JSON>>, <<PARQUET>>}

TabularInit ==
    /\ d_args \in [input_file : InputFileValues, output : OutputArgValues,
                   analyze : BOOLEAN, clean : BOOLEAN, format : FormatArgValues]
    /\ d_dirs0 \in {{<<>>, <<"sub">>}, {<<>>, <<"sub">>, <<"processed">>}}
    /\ \E content \in {Dataset(Decoder(d_args.input_file.suffix), t) : t \in SampleTables}
                        \cup {Garbage},
          old \in BOOLEAN :
          d_files0 = [q \in (IF d_args.input_file \in ExistingInputs
                             THEN {d_args.input_file} ELSE {})
                            \cup (IF old /\ truthy_arg(d_args.output)
                                     /\ ~path_blank(d_args.output[1])
                                     /\ ~IsDirectory(d_args.output[1], d_dirs0)
                                  THEN {d_args.output[1]} ELSE {}) |->
                        IF q = d_args.input_file THEN content ELSE Garbage]
    /\ d_dirs = d_dirs0
    /\ d_files = d_files0
    /\ d_pc = "load"
    /\ d_df = EmptyTable
    /\ d_steps = <<>>
    /\ d_encoded = <<>>
    /\ d_raised = None
    /\ d_exit = -1

Step(name, raised) == [step |-> name, raised |-> raised]

\* faulty variant: the error is reported and main goes on with the next step
Abort_GoesOn(name, exc, next) ==
    /\ d_steps' = Append(d_steps, Step(name, exc))
    /\ d_raised' = exc
    /\ d_pc' = next
    /\ d_exit' = IF next = "exited" THEN 1 ELSE d_exit

\* lines 297-299: a step raised: main reports the error and returns 1
Abort(name, exc, next) ==
    /\ d_steps' = Append(d_steps, Step(name, exc))
    /\ d_raised' = exc
    /\ d_pc' = "exited"
    /\ d_exit' = 1

\* the step completed: main goes on; line 295 returns 0 after the last one
Proceed(name, next) ==
    /\ d_steps' = Append(d_steps, Step(name, None))
    /\ d_raised' = d_raised
    /\ d_pc' = next
    /\ d_exit' = IF next = "exited" THEN 0 ELSE d_exit

\* the step is not selected: main passes it by
Skip(next) ==
    /\ d_pc' = next
    /\ d_exit' = IF next = "exited" THEN 0 ELSE d_exit
    /\ UNCHANGED <<d_steps, d_raised>>

\* lines 261-268: main loads the dataset
LoadStep ==
    /\ UNCHANGED notTabularVars
    /\ d_pc = "load"
    /\ LET r == load_dataset(d_args.input_file, d_files)
       IN  /\ d_df' = r.df
           /\ IF r.raised = None THEN Proceed("load", "analyze")
              ELSE Abort("load", r.raised, "analyze")
    /\ UNCHANGED <<d_args, d_dirs, d_files, d_dirs0, d_files0, d_encoded>>

\* lines 270-274: main analyzes the dataset when --analyze is given; analyze_dataset
\* raises for tables whose cells value_counts or json.dumps cannot handle
AnalyzeStep ==
    /\ UNCHANGED notTabularVars
    /\ d_pc = "analyze"
    /\ IF d_args.analyze
       THEN \/ Proceed("analyze", "clean")
            \/ Abort("analyze", "TypeError", "clean")
       ELSE Skip("clean")
    /\ UNCHANGED <<d_args, d_df, d_dirs, d_files, d_dirs0, d_files0, d_encoded>>

\* lines 276-284: main cleans the dataset when --clean is given; clean_dataset raises
\* for tables whose rows drop_duplicates cannot hash
CleanStep ==
    /\ UNCHANGED notTabularVars
    /\ d_pc = "clean"
    /\ IF d_args.clean
       THEN \/ /\ d_df' = clean_dataset(d_df, TRUE, "mean", "mode")
               /\ Proceed("clean", "save")
            \/ /\ d_df' = d_df
               /\ Abort("clean", "TypeError", "save")
       ELSE d_df' = d_df /\ Skip("save")
    /\ UNCHANGED <<d_args, d_dirs, d_files, d_dirs0, d_files0, d_encoded>>

\* lines 286-295: main saves to --output, or to the derived path after --clean, and
\* returns 0
SaveStep ==
    /\ UNCHANGED notTabularVars
    /\ d_pc = "save"
    /\ IF truthy_arg(d_args.output) \/ d_args.clean
       THEN LET r == IF truthy_arg(d_args.output)
                     THEN save_dataset(d_df, d_args.output[1], d_args.format,
                                       d_dirs, d_files)
                     ELSE save_dataset(d_df, DerivedOutputPath(d_args.input_file),
                                       <<>>, d_dirs, d_files)
            IN  /\ d_dirs' = r.dirs
                /\ d_files' = r.files
                /\ d_encoded' = d_encoded \o r.encoded
                /\ IF r.raised = None THEN Proceed("save", "exited")
                   ELSE Abort("save", r.raised, "exited")
       ELSE /\ Skip("exited")
            /\ UNCHANGED <<d_dirs, d_files, d_encoded>>
    /\ UNCHANGED <<d_args, d_df, d_dirs0, d_files0>>


(***************************************************************************)
(* your_package/example.py.  A Python value is its type and its content;   *)
(* a dict is an object on the heap (a set of key-value pairs), and a       *)
(* variable or attribute holds its address.                                *)
(***************************************************************************)
MaxItems == 2
StrValue(s) == [type |-> "str", s |-> s]
IntValue == [type |-> "int", s |-> <<>>]
ItemValues == {StrValue(<<>>), StrValue(<<" ", "B", " ">>), StrValue(<<"a">>), IntValue}
ListValue(items) == [type |-> "list", items |-> items]
InputDataValues ==
    {ListValue(items) : items \in SeqsUpTo(ItemValues, MaxItems)}
        \cup {[type |-> "NoneType", items |-> <<>>],
              [type |-> "str", items |-> <<StrValue(<<"a">>)>>],
              [type |-> "tuple", items |-> <<StrValue(<<"a">>)>>]}
FilterValues == {[type |-> "bool", val |-> TRUE], [type |-> "bool", val |-> FALSE],
                 [type |-> "int", val |-> TRUE]}

\* lines 43-55: the loop of process_data over the items
RECURSIVE processed_items(_, _)
processed_items(items, filter_empty) ==
    IF items = <<>> THEN <<>>
    ELSE LET item == Head(items)
             rest == processed_items(Tail(items), filter_empty)
             processed_item == lower(strip(item.s))
         IN  IF item.type # "str" THEN rest
             ELSE IF filter_empty /\ ~truthy_str(processed_item) THEN rest
             ELSE <<processed_item>> \o rest

\* lines 39-55: process_data
process_data(input_data, filter_empty) ==
    IF input_data.type # "list"
    THEN [called |-> TRUE, raised |-> "AssertionError", value |-> <<>>]
    ELSE IF ~(Len(input_data.items) > 0)
    THEN [called |-> TRUE, raised |-> "AssertionError", value |-> <<>>]
    ELSE IF filter_empty.type # "bool"
    THEN [called |-> TRUE, raised |-> "AssertionError", value |-> <<>>]
    ELSE [called |-> TRUE, raised |-> None,
          value |-> processed_items(input_data.items, filter_empty.val)]

ProcessDataInit ==
    /\ p_input \in InputDataValues
    /\ p_filter \in FilterValues
    /\ p_result = [called |-> FALSE, raised |-> None, value |-> <<>>]

\* a call of process_data
ProcessDataCall ==
    /\ UNCHANGED notProcessDataVars
    /\ ~p_result.called
    /\ p_result' = process_data(p_input, p_filter)
    /\ UNCHANGED <<p_input, p_filter>>

ConfigKeys == {"uppercase", "other"}
\* the dicts over ConfigKeys with boolean values
Dicts == {d \in SUBSET (ConfigKeys \X BOOLEAN) :
            \A x, y \in d : x[1] = y[1] => x = y}
NameValues == {<<"a">>, <<" ">>}

\* dict.get(key, default)
dict_get(d, key, default) ==
    IF \E x \in d : x[1] = key THEN (CHOOSE x \in d : x[1] = key)[2] ELSE default

\* d[key] = value
dict_set(d, key, value) == {x \in d : x[1] # key} \cup {<<key, value>>}

NoCall == [method |-> "", arg |-> <<>>, result |-> <<>>]
NoProcessor == [constructed |-> FALSE, name |-> <<>>, config |-> 0]

\* the caller holds None (address 0) or a dict of its own (address 1)
ProcessorInit ==
    /\ \E d \in Dicts : heap = <<d>>
    /\ caller_cfg \in {0, 1}
    /\ proc = NoProcessor
    /\ proc_cfg0 = {}
    /\ last_call = NoCall

\* lines 75-79: DataProcessor(name, config) with the caller's dict or None;
\* config or {} is the caller's own dict unless that is None or empty
Construct ==
    /\ UNCHANGED notProcessorVars
    /\ ~proc.constructed
    /\ \E name \in NameValues :
          IF ~truthy_str(strip(name))
          THEN /\ last_call' = [method |-> "__init__", arg |-> name,
                                result |-> <<"AssertionError">>]
               /\ UNCHANGED <<heap, proc, proc_cfg0>>
          ELSE /\ last_call' = [method |-> "__init__", arg |-> name, result |-> <<>>]
               /\ IF caller_cfg # 0 /\ heap[caller_cfg] # {}
                  THEN /\ heap' = heap
                       /\ proc' = [constructed |-> TRUE, name |-> name,
                                   config |-> caller_cfg]
                  ELSE /\ heap' = Append(heap, {})
                       /\ proc' = [constructed |-> TRUE, name |-> name,
                                   config |-> Len(heap) + 1]
               /\ proc_cfg0' = heap'[proc'.config]
    /\ UNCHANGED caller_cfg

\* lines 91-101: transform_text
transform_text(config, text) ==
    IF dict_get(config, "uppercase", FALSE) THEN upper(strip(text)) ELSE lower(strip(text))

TransformText ==
    /\ UNCHANGED notProcessorVars
    /\ proc.constructed
    /\ \E text \in TextValues :
          last_call' = [method |-> "transform_text", arg |-> text,
                        result |-> transform_text(heap[proc.config], text)]
    /\ UNCHANGED <<heap, caller_cfg, proc, proc_cfg0>>

\* lines 103-105: __str__
StrCall ==
    /\ UNCHANGED notProcessorVars
    /\ proc.constructed
    /\ last_call' = [method |-> "__str__", arg |-> <<>>,
                     result |-> <<"DataProcessor(name='">> \o proc.name \o <<"')">>]
    /\ UNCHANGED <<heap, caller_cfg, proc, proc_cfg0>>

\* the caller changes the dict it passed to the constructor
CallerMutates ==
    /\ UNCHANGED notProcessorVars
    /\ proc.constructed
    /\ caller_cfg # 0
    /\ \E key \in ConfigKeys, value \in BOOLEAN :
          heap' = [heap EXCEPT ![caller_cfg] = dict_set(@, key, value)]
    /\ UNCHANGED <<caller_cfg, proc, proc_cfg0, last_call>>


(***************************************************************************)
(* The variables of a utility that a specification does not run.           *)
(***************************************************************************)
FetchIdle ==
    /\ repo_ids = <<>> /\ repo_type = <<"a">> /\ max_retries = 1 /\ retry_delay = 0
    /\ f_pc = "done" /\ f_idx = 1 /\ retries = 0 /\ outcomes = <<>> /\ sleeps = 0
    /\ slept = 0 /\ calls = <<>> /\ f_stdout = <<>> /\ f_escaped = FALSE

TransformIdle ==
    /\ t_args = None /\ t_fs = <<>> /\ t_fs0 = <<>> /\ t_pc = "exited"
    /\ t_stdout = <<>> /\ t_stderr = <<>> /\ t_exit = -1

TabularIdle ==
    /\ d_args = None /\ d_pc = "exited" /\ d_df = EmptyTable /\ d_steps = <<>>
    /\ d_dirs = {} /\ d_files = <<>> /\ d_dirs0 = {} /\ d_files0 = <<>>
    /\ d_encoded = <<>> /\ d_raised = None /\ d_exit = -1

CleanIdle ==
    /\ c_df = None /\ c_out = NotCalled(None)

ProcessorIdle ==
    /\ heap = <<>> /\ caller_cfg = 0 /\ proc = NoProcessor /\ proc_cfg0 = {}
    /\ last_call = NoCall

ProcessDataIdle ==
    /\ p_input = ListValue(<<>>) /\ p_filter = [type |-> "bool", val |-> TRUE]
    /\ p_result = [called |-> TRUE, raised |-> None, value |-> <<>>]

(***************************************************************************)
(* The fetch script.                                                       *)
(***************************************************************************)
SpecFetchInit ==
    /\ FetchInit /\ TransformIdle /\ TabularIdle /\ CleanIdle /\ ProcessorIdle
    /\ ProcessDataIdle

SpecFetchNext ==
    \/ DownloadEnter
    \/ AttemptSucceeds
    \/ AttemptFails
    \/ SleepReturns
    \/ LoopExit

SpecFetch == SpecFetchInit /\ [][SpecFetchNext]_vars

NoOk(outs) == \A i \in DOMAIN outs : outs[i] = "fail"

\* the call of record c was made with arguments that pass the assertions
ValidCall(c) == PreconditionsHold(c.repo_id, repo_type, max_retries, retry_delay)

InCall == f_pc \in {"attempting", "sleeping"}

\* C1: a download_dataset call (non-blank repo_id, max_retries >= 1, arguments that
\* pass the assertions) in which every snapshot_download attempt fails makes exactly
\* max_retries attempts, sleeps retry_delay seconds exactly max_retries - 1 times,
\* one sleep between consecutive attempts and none after the last, and then raises
\* the last attempt's exception.
C1_AlwaysFailingCallExhaustsRetries ==
    /\ \A i \in DOMAIN calls :
          (ValidCall(calls[i]) /\ NoOk(calls[i].outcomes)) =>
              /\ Len(calls[i].outcomes) = max_retries
              /\ calls[i].sleeps = max_retries - 1
              /\ calls[i].slept = retry_delay * (max_retries - 1)
              /\ calls[i].outcome = "raised"
              /\ calls[i].value = DownloadError(calls[i].repo_id, max_retries)
    /\ (InCall /\ NoOk(outcomes)) =>
          /\ Len(outcomes) < max_retries
          /\ sleeps = IF f_pc = "sleeping" THEN Len(outcomes) - 1 ELSE Len(outcomes)
          /\ slept = retry_delay * sleeps

C1_Witness ==
    \E i \in DOMAIN calls :
        /\ max_retries >= 2
        /\ retry_delay > 0
        /\ NoOk(calls[i].outcomes)
        /\ Len(calls[i].outcomes) = max_retries
        /\ calls[i].outcome = "raised"

\* outs is k - 1 failures followed by one success
FailsThenOk(outs) ==
    /\ outs # <<>>
    /\ outs[Len(outs)] = "ok"
    /\ \A i \in 1..(Len(outs) - 1) : outs[i] = "fail"

\* C2: a call whose first k - 1 attempts fail and whose k-th attempt succeeds
\* (1 <= k <= max_retries) returns that attempt's download path without raising,
\* after exactly k attempts and k - 1 sleeps, and nothing is attempted or slept after
\* the successful attempt.
C2_SuccessOnAttemptKReturns ==
    /\ \A i \in DOMAIN calls :
          LET c == calls[i]
              k == Len(c.outcomes)
          IN  /\ \A j \in DOMAIN c.outcomes : c.outcomes[j] = "ok" => j = k
              /\ FailsThenOk(c.outcomes) =>
                    /\ k <= max_retries
                    /\ c.outcome = "returned"
                    /\ c.value = DownloadPath(c.repo_id, k)
                    /\ c.sleeps = k - 1
                    /\ c.slept = retry_delay * (k - 1)
    /\ InCall => NoOk(outcomes)

C2_Witness ==
    \E i \in DOMAIN calls :
        /\ calls[i].outcomes = <<"fail", "ok">>
        /\ calls[i].outcome = "returned"
        /\ calls[i].sleeps = 1

SkipLines == SelectSeq(calls, LAMBDA c : c.outcome = "raised")

\* C3: the top-level loop calls download_dataset once for every identifier of
\* repo_ids, in list order, whatever the earlier outcomes: a call that raises is
\* logged, the loop goes on with the next identifier, and no failure leaves the loop.
C3_LoopVisitsEveryIdentifier ==
    /\ f_escaped = FALSE
    /\ Len(calls) <= Len(repo_ids)
    /\ \A i \in DOMAIN calls : calls[i].repo_id = repo_ids[i]
    /\ f_idx = Len(calls) + 1
    /\ f_pc = "done" => Len(calls) = Len(repo_ids)
    /\ Len(f_stdout) = Len(SkipLines)
    /\ \A i \in DOMAIN f_stdout :
          f_stdout[i] = <<"Skipping", SkipLines[i].repo_id, SkipLines[i].value>>

C3_Witness ==
    /\ f_pc = "done"
    /\ Len(calls) = 2
    /\ calls[1].outcome = "raised"
    /\ calls[1].value = DownloadError(repo_ids[1], max_retries)
    /\ calls[2].outcome = "returned"

\* the string is empty or holds white space only
AllWhitespace(str) == \A i \in DOMAIN str : str[i] \in {" ", "\n"}

\* a call for repo_id with the run's other arguments breaks a precondition
BadArguments(repo_id) ==
    \/ AllWhitespace(repo_id)
    \/ AllWhitespace(repo_type)
    \/ max_retries < 1
    \/ retry_delay < 0

\* C13: download_dataset checks its preconditions before the first attempt: with a
\* blank repo_id, a blank repo_type, a max_retries below 1 or a negative retry_delay
\* the call fails (AssertionError) with no snapshot_download attempt and no sleep.
C13_PreconditionsCheckedBeforeFirstAttempt ==
    /\ \A i \in DOMAIN calls :
          BadArguments(calls[i].repo_id) =>
              /\ calls[i].outcome = "raised"
              /\ calls[i].value = <<"AssertionError">>
              /\ calls[i].outcomes = <<>>
              /\ calls[i].sleeps = 0
              /\ calls[i].slept = 0
    /\ f_pc \in {"attempting", "sleeping"} => ~BadArguments(repo_ids[f_idx])

\* a call with a blank identifier failed, and one with a good identifier went on
C13_Witness ==
    /\ AllWhitespace(repo_type) = FALSE
    /\ max_retries >= 1
    /\ retry_delay >= 0
    /\ Len(calls) = 2
    /\ calls[1].repo_id = <<" ">>
    /\ calls[1].value = <<"AssertionError">>
    /\ calls[2].outcomes # <<>>

(***************************************************************************)
(* The text transform command.                                             *)
(***************************************************************************)
SpecTransformInit ==
    /\ TransformInit /\ FetchIdle /\ TabularIdle /\ CleanIdle /\ ProcessorIdle
    /\ ProcessDataIdle

SpecTransformNext == TransformMain

SpecTransform == SpecTransformInit /\ [][SpecTransformNext]_vars

Echoed == \E i \in DOMAIN t_stdout : t_stdout[i][1] = "echo"

InputMissingOrBlank ==
    /\ ~blank_path(t_args.input)
    /\ \/ t_fs0[t_args.input] = NoFile
       \/ /\ t_fs0[t_args.input].kind = "file"
          /\ strip(t_fs0[t_args.input].text) = <<>>

OutputGiven == t_args.output \notin {None, ""}

\* C4: when the input file of the transform command does not exist or its content is
\* blank (empty or whitespace only), main returns 1 with an error on standard error,
\* no file has been written and no result has been echoed (standard output holds at
\* most the verbose progress line); main returns 0 only when process_file completed:
\* the input was readable and not blank and its upper-cased content was delivered.
C4_MissingOrBlankInputFails ==
    t_pc = "exited" =>
        /\ InputMissingOrBlank =>
              /\ t_exit = 1
              /\ Len(t_stderr) = 1
              /\ t_stderr[1][2] = IF t_fs0[t_args.input] = NoFile
                                  THEN "FileNotFoundError" ELSE "ValueError"
              /\ t_fs = t_fs0
              /\ ~Echoed
              /\ \A i \in DOMAIN t_stdout : t_stdout[i][1] = "Processing file"
        /\ t_exit \in {0, 1}
        /\ t_exit = 0 =>
              /\ t_stderr = <<>>
              /\ ~InputMissingOrBlank
              /\ t_fs0[t_args.input].kind = "file"
              /\ IF OutputGiven
                 THEN /\ t_fs[t_args.output] = TextFile(upper(t_fs0[t_args.input].text))
                      /\ ~Echoed
                 ELSE /\ t_fs = t_fs0
                      /\ t_stdout # <<>>
                      /\ t_stdout[Len(t_stdout)] =
                             <<"echo", upper(t_fs0[t_args.input].text)>>

C4_Witness ==
    /\ t_pc = "exited"
    /\ t_args.input = InFile
    /\ t_fs0[InFile] = TextFile(<<" ", "\n">>)
    /\ t_args.output = OutFile
    /\ t_args.verbose
    /\ t_exit = 1

(***************************************************************************)
(* clean_dataset.                                                          *)
(***************************************************************************)
SpecCleanInit ==
    /\ CleanInit /\ FetchIdle /\ TransformIdle /\ TabularIdle /\ ProcessorIdle
    /\ ProcessDataIdle

SpecCleanNext == CleanCall

SpecClean == SpecCleanInit /\ [][SpecCleanNext]_vars

\* the input rows that are the first of their kind, and the k-th of them
FirstOccurrences == {i \in DOMAIN c_df.rows : \A k \in 1..(i - 1) : c_df.rows[k] # c_df.rows[i]}
KthFirst(k) ==
    CHOOSE i \in FirstOccurrences : Cardinality({l \in FirstOccurrences : l < i}) = k - 1

\* the input rows, among the first occurrences, whose entry in column j is present
PresentIn(j) == {i \in FirstOccurrences : c_df.rows[i][j][1] # "na"}

RECURSIVE SumOver(_, _)
SumOver(S, j) ==
    IF S = {} THEN 0
    ELSE LET i == CHOOSE x \in S : TRUE IN c_df.rows[i][j][2] + SumOver(S \ {i}, j)

\* cell is the number Sum(S) / |S|
IsMeanOf(cell, S, j) ==
    /\ S # {}
    /\ cell[1] = "num"
    /\ cell[3] > 0
    /\ cell[2] * Cardinality(S) = SumOver(S, j) * cell[3]

DropAndMean == c_out.called /\ c_out.drop_duplicates /\ c_out.fill_numeric_na = "mean"

\* the rows of the result are the distinct rows of the input, in order, with every
\* present entry unchanged
DistinctRowsKept ==
    /\ Len(c_out.df.rows) = Cardinality({c_df.rows[i] : i \in DOMAIN c_df.rows})
    /\ Len(c_out.df.rows) = Cardinality(FirstOccurrences)
    /\ \A m \in DOMAIN c_out.df.rows : \A j \in DOMAIN c_df.dtypes :
          c_df.rows[KthFirst(m)][j][1] # "na" =>
              c_out.df.rows[m][j] = c_df.rows[KthFirst(m)][j]

ExampleTable ==
    [dtypes |-> <<"num", "num">>,
     rows |-> << <<Num(1, 1), Num(2, 1)>>, <<Num(1, 1), Num(2, 1)>>, <<Num(3, 1), NA>> >>]

ExampleHolds ==
    c_df = ExampleTable =>
        c_out.df.rows = << <<Num(1, 1), Num(2, 1)>>, <<Num(3, 1), Num(2, 1)>> >>

\* C8 as stated: with drop_duplicates and fill_numeric_na = 'mean' the result holds
\* the distinct rows of the input, every present entry unchanged, and EVERY missing
\* entry of a numeric column replaced by the mean of the column's present values
\* over the rows that remain.
C8_Original_EveryMissingNumericFilled ==
    DropAndMean =>
        /\ DistinctRowsKept
        /\ ExampleHolds
        /\ \A m \in DOMAIN c_out.df.rows : \A j \in DOMAIN c_df.dtypes :
              (c_df.dtypes[j] = "num" /\ c_df.rows[KthFirst(m)][j][1] = "na") =>
                  IsMeanOf(c_out.df.rows[m][j], PresentIn(j), j)

\* C8 (amended): with drop_duplicates and fill_numeric_na = 'mean' the result holds
\* the distinct rows of the input, in order, every present entry unchanged; in a
\* numeric column that has a present value among the remaining rows every missing
\* entry is replaced by the mean of those present values, and a numeric column with
\* no present value keeps its missing entries; the example table becomes
\* (1,2),(3,2).
C8_MissingNumericFilledWhenAValueIsPresent ==
    DropAndMean =>
        /\ DistinctRowsKept
        /\ ExampleHolds
        /\ \A m \in DOMAIN c_out.df.rows : \A j \in DOMAIN c_df.dtypes :
              (c_df.dtypes[j] = "num" /\ c_df.rows[KthFirst(m)][j][1] = "na") =>
                  IF PresentIn(j) # {}
                  THEN IsMeanOf(c_out.df.rows[m][j], PresentIn(j), j)
                  ELSE c_out.df.rows[m][j] = NA

\* a duplicate is dropped and the mean over the remaining rows differs from the mean
\* over all rows
C8_Witness ==
    /\ DropAndMean
    /\ c_df.dtypes = <<"num", "num">>
    /\ c_df.rows = << <<Num(1, 1), Num(2, 1)>>, <<Num(1, 1), Num(2, 1)>>,
                      <<Num(3, 1), Num(5, 1)>>, <<Num(3, 1), NA>> >>
    /\ c_out.df.rows = << <<Num(1, 1), Num(2, 1)>>, <<Num(3, 1), Num(5, 1)>>,
                          <<Num(3, 1), Num(7, 2)>> >>

(***************************************************************************)
(* The tabular command.                                                    *)
(***************************************************************************)
SpecTabularInit ==
    /\ TabularInit /\ FetchIdle /\ TransformIdle /\ CleanIdle /\ ProcessorIdle
    /\ ProcessDataIdle

SpecTabularNext ==
    \/ LoadStep
    \/ AnalyzeStep
    \/ CleanStep
    \/ SaveStep

SpecTabular == SpecTabularInit /\ [][SpecTabularNext]_vars

StepRank(name) ==
    IF name = "load" THEN 1 ELSE IF name = "analyze" THEN 2
    ELSE IF name = "clean" THEN 3 ELSE 4

\* the steps the flags select
Selected(name) ==
    IF name = "load" THEN TRUE
    ELSE IF name = "analyze" THEN d_args.analyze
    ELSE IF name = "clean" THEN d_args.clean
    ELSE (d_args.output # <<>> /\ d_args.output[1] # EmptyString) \/ d_args.clean

StepNames == {"load", "analyze", "clean", "save"}
Ran(name) == \E i \in DOMAIN d_steps : d_steps[i].step = name
SomeStepRaised == \E i \in DOMAIN d_steps : d_steps[i].raised # None

\* C5: main runs load, analyze (if --analyze), clean (if --clean), save in this
\* order, each at most once; once a step has raised no later step runs, nothing is
\* retried and main returns 1; main returns 0 only when every selected step completed.
C5_FirstFailureAbortsPipeline ==
    /\ \A i, j \in DOMAIN d_steps :
          i < j => StepRank(d_steps[i].step) < StepRank(d_steps[j].step)
    /\ \A i \in DOMAIN d_steps :
          /\ Selected(d_steps[i].step)
          /\ i < Len(d_steps) => d_steps[i].raised = None
          /\ \A n \in StepNames :
                (Selected(n) /\ StepRank(n) < StepRank(d_steps[i].step)) => Ran(n)
    /\ SomeStepRaised => (d_pc = "exited" /\ d_exit = 1 /\ d_raised # None)
    /\ d_pc = "exited" =>
          /\ d_exit \in {0, 1}
          /\ d_exit = 0 =>
                /\ ~SomeStepRaised
                /\ d_raised = None
                /\ \A n \in StepNames : Selected(n) => Ran(n)

C5_Witness ==
    /\ d_pc = "exited"
    /\ d_args.analyze /\ d_args.clean /\ d_args.output # <<>>
    /\ Len(d_steps) = 2
    /\ d_steps[2] = Step("analyze", "TypeError")
    /\ d_exit = 1

\* the path and format main's save step handed to save_dataset
SavePath ==
    IF d_args.output # <<>> /\ d_args.output[1] # EmptyString THEN d_args.output[1]
    ELSE PathOf(Append(d_args.input_file.dir, "processed"),
                Append(d_args.input_file.stem, "_cleaned"), d_args.input_file.suffix)
SaveFormatArg ==
    IF d_args.output # <<>> /\ d_args.output[1] # EmptyString THEN d_args.format ELSE <<>>

\* the extension of the save path, lower-cased and without its dot, is none of
\* csv, json, parquet
UnsupportedExtension ==
    LET ext == SavePath.suffix
    IN  /\ SavePath \notin {EmptyString, BlankString}
        /\ \A f \in {CSV, JSON, PARQUET} : lower(ext) # <<".">> \o f

\* C6: save_dataset called with an output path whose extension is not csv, json or
\* parquet, and no explicit format_type, raises ValueError; no encoder is invoked, no
\* file is written, and the output path holds a file afterwards only if it held that
\* file before the call.
C6_UnsupportedExtensionRaisesBeforeWriting ==
    (Ran("save") /\ SaveFormatArg = <<>> /\ UnsupportedExtension) =>
        /\ d_steps[Len(d_steps)] = Step("save", "ValueError")
        /\ d_encoded = <<>>
        /\ d_files = d_files0
        /\ SavePath \in DOMAIN d_files => SavePath \in DOMAIN d_files0
        /\ d_exit = 1

C6_Witness ==
    /\ Ran("save")
    /\ d_args.output = <<PathOf(<<>>, <<"out">>, <<".", "t", "x", "t">>)>>
    /\ d_args.format = <<>>
    /\ d_args.output[1] \notin DOMAIN d_files
    /\ d_steps[Len(d_steps)].raised = "ValueError"

OutputPaths == IF d_args.output = <<>> THEN {} ELSE {d_args.output[1]}

\* the files whose presence or content differs from before the run
ChangedFiles ==
    {q \in DOMAIN d_files \cup DOMAIN d_files0 :
        \/ q \notin DOMAIN d_files
        \/ q \notin DOMAIN d_files0
        \/ d_files[q] # d_files0[q]}

\* C7 as stated: a run of the tabular command creates or modifies no file or
\* directory other than the path given to --output, and nothing at all when --output
\* is absent.
C7_Original_OnlyOutputPathTouched ==
    /\ d_dirs = d_dirs0
    /\ ChangedFiles \subseteq OutputPaths

\* C7 (amended): a run creates or modifies no file other than the path given to
\* --output or, when --output is absent or empty and --clean is given,
\* <input directory>/processed/<input stem>_cleaned<input suffix>; it removes no
\* directory and creates none but the missing ancestors of that one path (also when
\* the save then fails); without --output and without --clean it changes nothing.
C7_OnlySavePathAndItsAncestorsTouched ==
    /\ d_dirs0 \subseteq d_dirs
    /\ IF Selected("save")
       THEN /\ ChangedFiles \subseteq {SavePath}
            /\ d_dirs \ d_dirs0 \subseteq {SubSeq(SavePath.dir, 1, k) : k \in 1..Len(SavePath.dir)}
       ELSE d_dirs = d_dirs0 /\ ChangedFiles = {}
    /\ ~Ran("save") => (d_dirs = d_dirs0 /\ ChangedFiles = {})

C7_Witness ==
    /\ d_pc = "exited"
    /\ d_exit = 0
    /\ d_args.output = <<>>
    /\ d_args.clean
    /\ <<"processed">> \in d_dirs \ d_dirs0
    /\ ChangedFiles = {PathOf(<<"processed">>, <<"data", "_cleaned">>, <<".", "c", "s", "v">>)}

\* the input file was loaded and neither analyze_dataset nor clean_dataset raised
LoadedAndCleaned ==
    /\ \E i \in DOMAIN d_steps : d_steps[i] = Step("load", None)
    /\ \E i \in DOMAIN d_steps : d_steps[i] = Step("clean", None)
    /\ \A i \in DOMAIN d_steps : d_steps[i].step = "analyze" => d_steps[i].raised = None

\* <input directory>/processed/<input stem>_cleaned<input suffix>
ProcessedPath ==
    PathOf(Append(d_args.input_file.dir, "processed"),
           Append(d_args.input_file.stem, "_cleaned"), d_args.input_file.suffix)

\* the suffixes load_dataset accepts
LoadableSuffix ==
    lower(d_args.input_file.suffix) \in
        {<<".">> \o CSV, <<".">> \o JSON, <<".">> \o XLSX, <<".">> \o XLS, <<".">> \o PARQUET}

\* C11: run with --clean and without --output on an input file load_dataset accepts
\* (.csv, .json, .xlsx, .xls, .parquet), the tabular command saves the cleaned table
\* to <input directory>/processed/<input stem>_cleaned<input suffix> and returns 0.
C11_CleanedTableSavedForEveryLoadableInput ==
    (d_pc = "exited" /\ d_args.clean /\ d_args.output = <<>> /\ LoadableSuffix
        /\ LoadedAndCleaned) =>
        /\ d_exit = 0
        /\ ProcessedPath \in DOMAIN d_files
        /\ d_files[ProcessedPath].table = d_df

\* C12: when the explicit or inferred format is unsupported, save_dataset raises its
\* ValueError before any side effect: the directories and the files are exactly what
\* they were before the call, and the parent of the output path is not created.
C12_UnsupportedFormatLeavesFilesystemUntouched ==
    (Ran("save") /\ d_steps[Len(d_steps)] = Step("save", "ValueError")) =>
        /\ d_dirs = d_dirs0
        /\ d_files = d_files0

(***************************************************************************)
(* DataProcessor.                                                          *)
(***************************************************************************)
SpecProcessorInit ==
    /\ ProcessorInit /\ FetchIdle /\ TransformIdle /\ TabularIdle /\ CleanIdle
    /\ ProcessDataIdle

SpecProcessorNext ==
    \/ Construct
    \/ TransformText
    \/ StrCall
    \/ CallerMutates

SpecProcessor == SpecProcessorInit /\ [][SpecProcessorNext]_vars

\* C9: after DataProcessor(name, config) returns, the processor's configuration is
\* what it was when the constructor returned, whatever transform_text and __str__
\* calls follow and whatever the caller does to the dictionary it passed, and
\* transform_text answers by that configuration.
C9_ConfigurationNeverChanges ==
    proc.constructed =>
        /\ heap[proc.config] = proc_cfg0
        /\ last_call.method = "transform_text" =>
              last_call.result =
                  IF <<"uppercase", TRUE>> \in proc_cfg0
                  THEN upper(strip(last_call.arg)) ELSE lower(strip(last_call.arg))

(***************************************************************************)
(* process_data.                                                           *)
(***************************************************************************)
SpecProcessDataInit ==
    /\ ProcessDataInit /\ FetchIdle /\ TransformIdle /\ TabularIdle /\ CleanIdle
    /\ ProcessorIdle

SpecProcessDataNext == ProcessDataCall

SpecProcessData == SpecProcessDataInit /\ [][SpecProcessDataNext]_vars

\* C10: process_data raises ValueError when input_data is an empty list and
\* TypeError when input_data is not a list, and returns no result in both cases.
C10_DocumentedErrorKinds ==
    p_result.called =>
        /\ (p_input.type = "list" /\ p_input.items = <<>>) =>
              (p_result.raised = "ValueError" /\ p_result.value = <<>>)
        /\ p_input.type # "list" =>
              (p_result.raised = "TypeError" /\ p_result.value = <<>>)


====
